---- MODULE Spec2Model ----
(***************************************************************************)
(* Model of HeapAllocator (src/src/HeapManager.cpp): a best-fit            *)
(* sub-allocator over one linear range, with block splitting on Allocate   *)
(* and coalescing of adjacent free blocks on Free.                         *)
(*                                                                         *)
(* uint32_t arithmetic is modelled at a reduced width of WordBits bits:    *)
(* every uint32_t value of the program is a value in 0 .. UINT32_MOD - 1   *)
(* and every cast to uint32_t is "% UINT32_MOD".                           *)
(*                                                                         *)
(* m_blockByOffset is written by the constructor, SplitBlock and            *)
(* CoalesceAdjacentFreeBlocks and read nowhere; no behaviour depends on it *)
(* and it is not part of the model.                                        *)
(*                                                                         *)
(* Three more state machines share the module: the HeapManager adapter     *)
(* with its mutex (SpecHM), the Scene's lifecycle over its four heap       *)
(* managers (SpecScene), and the Application's two threads with the frame  *)
(* fence of its render loop (SpecApp).                                     *)
(***************************************************************************)
EXTENDS Integers, Sequences, FiniteSets, TLC

\* ---------------------------------------------------------------- bounds
\* Width of the modelled uint32_t.
WordBits == 4
\* Allocate is not taken when it would leave more zero-sized blocks than this
\* in the list (zero-sized allocations can make the list grow without limit).
MaxZeroSized == 1

\* 2^32 of the program, at the modelled width.
UINT32_MOD == 2 ^ WordBits

\* static_cast<uint32_t>(x)
ToUint32(x) == x % UINT32_MOD

\* (uint32_t)-1: the failure value of Allocate and the sentinel of Free.
INVALID_OFFSET == UINT32_MOD - 1

\* m_blocks.end(): the iterator that designates no block.
END == 0

\* The <<numElements, elementSize, alignment, outputDebugStringLogs>> the
\* constructor is called with. HeapManager::Initialize passes alignment =
\* elementSize; the constructor itself also takes an elementSize that is no
\* multiple of the alignment.
ConstructorArgs ==
    {<<0, 4, 4, FALSE>>, <<1, 4, 4, TRUE>>, <<1, 4, 4, FALSE>>, <<1, 3, 4, FALSE>>,
     <<2, 3, 4, TRUE>>, <<3, 4, 4, FALSE>>, <<4, 2, 2, FALSE>>,
     <<1, 6, 6, FALSE>>}

\* All uint32_t values.
Uint32 == 0 .. (UINT32_MOD - 1)

\* The threads that call into one HeapManager.
NumThreads == 2
Threads == 1 .. NumThreads

\* HeapManager::RESERVED_OFFSET (ReadbackHeapManager::RESERVED_OFFSET is the same).
RESERVED_OFFSET == 1

VARIABLES
    m_numElements,            \* HeapAllocator::m_numElements
    m_elementSize,            \* HeapAllocator::m_elementSize
    m_alignment,              \* HeapAllocator::m_alignment
    m_alignedSize,            \* HeapAllocator::m_alignedSize
    m_outputDebugStringLogs,  \* HeapAllocator::m_outputDebugStringLogs
    m_blocks,                 \* std::list<Block>, in list order
    m_freeBlocksBySizeMap,    \* std::multimap size -> iterator, as a key-sorted sequence
    m_allocations,            \* std::map offset -> AllocationInfo
    lastOp,                   \* the call that ran last
    ret,                      \* its return value (Free: the path it took, the number
                              \* of blocks it merged away, and whether its argument
                              \* was in freedOffsets)
    logOutput,                \* TRUE iff it reached OutputDebugStringA
    assertFailed,             \* TRUE iff it reached assert(false)
    freedOffsets,             \* offsets Free has released and Allocate has not returned since
    aborted,                  \* TRUE iff the assertion ended the process (debug build)
    m_mutex,                  \* HeapManager::m_mutex: the thread that holds it, 0 when free
    pc,                       \* per thread: where it is inside a HeapManager call
    local                     \* per thread: the locals of the allocator call it is inside

config == <<m_numElements, m_elementSize, m_alignment, m_alignedSize, m_outputDebugStringLogs>>
heapVars == <<m_blocks, m_freeBlocksBySizeMap, m_allocations>>
callVars == <<freedOffsets, lastOp, ret, logOutput, assertFailed, aborted>>
threadVars == <<m_mutex, pc, local>>

VARIABLES
    scene,                    \* the Scene: m_isBuilt and the offsets it holds
    sceneHeaps,               \* the containers of the allocators of its four heap managers
    scenePc,                  \* where the Scene is in its lifecycle
    sceneFrees                \* the Free calls the Scene has made, in order

sceneVars == <<scene, sceneHeaps, scenePc, sceneFrees>>

VARIABLES
    m_isRunning,              \* Application::m_isRunning (std::atomic<bool>)
    m_windowCreated,          \* Application::m_windowCreated (std::atomic<bool>)
    m_windowMutex,            \* Application::m_windowMutex: the thread that holds it, "free" when none
    m_hwnd,                   \* Application::m_hwnd # nullptr
    runPc,                    \* the main thread: where it is inside Application::Run
    msgPc,                    \* the message thread: where it is inside MessagePumpThread
    m_fenceValues,            \* Application::m_fenceValues[SWAP_CHAIN_BUFFER_COUNT]
    m_currentBackBufferIndex, \* Application::m_currentBackBufferIndex
    m_width,                  \* Application::m_width, m_height: the size the swap chain has
    currentFenceValue,        \* MoveToNextFrame's local currentFenceValue
    fenceCompleted,           \* m_fence->GetCompletedValue()
    commandQueue,             \* m_commandQueue: the work the GPU has not executed yet
    m_fenceEvent,             \* Application::m_fenceEvent: TRUE iff the event is signalled
    eventOnCompletion,        \* the fence value of the pending SetEventOnCompletion, 0 when none
    signalled                 \* per command allocator: the fence value signalled after the
                              \* last frame recorded with it, 0 when there is none

windowVars == <<m_isRunning, m_windowCreated, m_windowMutex, m_hwnd, runPc, msgPc>>
frameVars == <<m_fenceValues, m_currentBackBufferIndex, m_width, currentFenceValue,
               fenceCompleted, commandQueue, m_fenceEvent, eventOnCompletion, signalled>>
appVars == <<sceneVars, windowVars, frameVars>>
allocatorVars == <<config, heapVars, callVars, threadVars>>
vars == <<config, heapVars, callVars, threadVars, appVars>>

\* ---------------------------------------------------------------- helpers
Min(S) == CHOOSE x \in S : \A y \in S : x <= y
Max(S) == CHOOSE x \in S : \A y \in S : x >= y

\* std::map operator[] assignment and erase(key).
MapPut(m, k, v) == [x \in (DOMAIN m) \cup {k} |-> IF x = k THEN v ELSE m[x]]
MapErase(m, k) == [x \in (DOMAIN m) \ {k} |-> m[x]]
EmptyMap == [x \in {} |-> 0]

\* Helper.h AlignSize: round size up to a multiple of alignment (64-bit).
AlignSize(size, alignment) == ((size + alignment - 1) \div alignment) * alignment

\* The allocator's containers as one value.
Heap == [blocks |-> m_blocks,
         freeMap |-> m_freeBlocksBySizeMap, allocs |-> m_allocations]

\* A std::list<Block>::iterator is modelled by the position of its block in the
\* list. The list keeps iterators valid across emplace and erase, so every
\* iterator the maps hold is renumbered when a block is inserted or erased.
Renumber(h, blocks, blockIt, shift) ==
    LET Shift(it) == IF it > blockIt THEN it + shift ELSE it
    IN [blocks |-> blocks,
        freeMap |-> [k \in 1..Len(h.freeMap) |-> [h.freeMap[k] EXCEPT !.it = Shift(@)]],
        allocs |-> [o \in DOMAIN h.allocs |-> [h.allocs[o] EXCEPT !.blockIt = Shift(@)]]]

\* m_blocks.emplace(std::next(blockIt)) with the new block's fields.
ListEmplaceAfter(h, blockIt, block) ==
    Renumber(h, SubSeq(h.blocks, 1, blockIt) \o <<block>>
                \o SubSeq(h.blocks, blockIt + 1, Len(h.blocks)), blockIt, 1)

\* m_blocks.erase(blockIt)
ListErase(h, blockIt) ==
    Renumber(h, SubSeq(h.blocks, 1, blockIt - 1)
                \o SubSeq(h.blocks, blockIt + 1, Len(h.blocks)), blockIt, -1)

\* std::multimap::emplace: after the last entry whose key is <= key.
MultimapEmplace(freeMap, key, it) ==
    LET k == Cardinality({i \in 1..Len(freeMap) : freeMap[i].key <= key})
    IN SubSeq(freeMap, 1, k) \o <<[key |-> key, it |-> it]>> \o SubSeq(freeMap, k + 1, Len(freeMap))

\* RemoveFromFreeMap erasing the first entry of the block's size, whatever its iterator.
RemoveFromFreeMap_FirstOfSize(h, blockIt) ==
    LET size == h.blocks[blockIt].size
        hits == {i \in 1..Len(h.freeMap) : h.freeMap[i].key = size}
    IN IF hits = {} THEN h
       ELSE LET i == Min(hits)
            IN [h EXCEPT !.freeMap = SubSeq(h.freeMap, 1, i - 1) \o SubSeq(h.freeMap, i + 1, Len(h.freeMap))]

\* HeapAllocator::RemoveFromFreeMap: erase the first entry of
\* equal_range(blockIt->size) whose iterator is blockIt.
RemoveFromFreeMap(h, blockIt) ==
    LET size == h.blocks[blockIt].size
        hits == {i \in 1..Len(h.freeMap) : h.freeMap[i].key = size /\ h.freeMap[i].it = blockIt}
    IN IF hits = {} THEN h
       ELSE LET i == Min(hits)
            IN [h EXCEPT !.freeMap = SubSeq(h.freeMap, 1, i - 1) \o SubSeq(h.freeMap, i + 1, Len(h.freeMap))]

\* Allocate's lambda FindBestFitBlock: lower_bound(size) of the size index.
FindBestFitBlock(h, size) ==
    LET fits == {i \in 1..Len(h.freeMap) : h.freeMap[i].key >= size}
    IN IF fits = {} THEN END ELSE h.freeMap[Min(fits)].it

\* SplitBlock without "Resize current block".
SplitBlock_NoResize(h, blockIt, size) ==
    LET b == h.blocks[blockIt]
        newBlock == [offset |-> ToUint32(b.offset + size),
                     size |-> ToUint32(b.size - size + UINT32_MOD),
                     isFree |-> TRUE]
        h1 == ListEmplaceAfter(h, blockIt, newBlock)
        newBlockIt == blockIt + 1
    IN [h1 EXCEPT !.freeMap = MultimapEmplace(h1.freeMap, newBlock.size, newBlockIt)]

\* Allocate's lambda SplitBlock.
SplitBlock(h, blockIt, size) ==
    LET b == h.blocks[blockIt]
        newBlock == [offset |-> ToUint32(b.offset + size),
                     size |-> ToUint32(b.size - size + UINT32_MOD),
                     isFree |-> TRUE]
        h1 == ListEmplaceAfter(h, blockIt, newBlock)
        newBlockIt == blockIt + 1
    IN [h1 EXCEPT !.blocks[blockIt].size = size,
                  !.freeMap = MultimapEmplace(h1.freeMap, newBlock.size, newBlockIt)]

\* HeapAllocator::OutputDebugStringLog: TRUE iff the call reaches OutputDebugStringA.
OutputDebugStringLog(forceOutput) == m_outputDebugStringLogs \/ forceOutput

\* The failure branch, recording an AllocationInfo for the failure value.
AllocateFailed_Records(h, alignedSize) ==
    [h |-> [h EXCEPT !.allocs = MapPut(h.allocs, INVALID_OFFSET,
                [offset |-> INVALID_OFFSET, size |-> alignedSize, blockIt |-> END])],
     ret |-> INVALID_OFFSET,
     log |-> OutputDebugStringLog(FALSE)]

\* HeapAllocator::Allocate, "if (blockIt == m_blocks.end())": log and return
\* (uint32_t)-1 with the containers untouched.
AllocateFailed(h, alignedSize) ==
    [h |-> h, ret |-> INVALID_OFFSET, log |-> OutputDebugStringLog(FALSE)]

\* HeapAllocator::Allocate: the new containers, the return value, and whether
\* the call reached OutputDebugStringA.
AllocateOp(h, allocationSize) ==
    LET alignedSize == ToUint32(AlignSize(allocationSize, m_alignment))
        blockIt == FindBestFitBlock(h, alignedSize)
    IN IF blockIt = END
       THEN AllocateFailed(h, alignedSize)
       ELSE LET allocOffset == h.blocks[blockIt].offset
                h1 == RemoveFromFreeMap(h, blockIt)
                h2 == IF h1.blocks[blockIt].size > alignedSize
                      THEN SplitBlock(h1, blockIt, alignedSize)
                      ELSE h1
                allocInfo == [offset |-> allocOffset, size |-> alignedSize, blockIt |-> blockIt]
            IN [h |-> [h2 EXCEPT !.blocks[blockIt].isFree = FALSE,
                                 !.allocs = MapPut(h2.allocs, allocOffset, allocInfo)],
                ret |-> allocOffset,
                log |-> OutputDebugStringLog(FALSE)]

\* CoalesceAdjacentFreeBlocks without the merge into the previous block.
CoalescePrev_Skip(h, freedBlockIt) == [h |-> h, it |-> freedBlockIt]

\* HeapAllocator::CoalesceAdjacentFreeBlocks, "Try to merge with previous block":
\* the containers and the iterator the function continues with.
CoalescePrev(h, freedBlockIt) ==
    IF freedBlockIt > 1
       /\ h.blocks[freedBlockIt - 1].isFree
       /\ ToUint32(h.blocks[freedBlockIt - 1].offset + h.blocks[freedBlockIt - 1].size)
            = h.blocks[freedBlockIt].offset
    THEN LET prevIt == freedBlockIt - 1
             h1 == RemoveFromFreeMap(h, prevIt)
             h2 == [h1 EXCEPT !.blocks[prevIt].size = ToUint32(@ + h1.blocks[freedBlockIt].size)]
         IN [h |-> ListErase(h2, freedBlockIt), it |-> prevIt]
    ELSE [h |-> h, it |-> freedBlockIt]

\* CoalesceAdjacentFreeBlocks without the merge with the next block.
CoalesceNext_Skip(h, freedBlockIt) == h

\* HeapAllocator::CoalesceAdjacentFreeBlocks, "Try to merge with next block".
CoalesceNext(h, freedBlockIt) ==
    LET nextIt == IF freedBlockIt < Len(h.blocks) THEN freedBlockIt + 1 ELSE END
    IN IF nextIt # END
          /\ h.blocks[nextIt].isFree
          /\ ToUint32(h.blocks[freedBlockIt].offset + h.blocks[freedBlockIt].size)
               = h.blocks[nextIt].offset
       THEN LET h1 == RemoveFromFreeMap(h, nextIt)
                h2 == [h1 EXCEPT !.blocks[freedBlockIt].size = ToUint32(@ + h1.blocks[nextIt].size)]
            IN ListErase(h2, nextIt)
       ELSE h

\* HeapAllocator::CoalesceAdjacentFreeBlocks.
CoalesceAdjacentFreeBlocks(h, freedBlockIt) ==
    LET p == CoalescePrev(h, freedBlockIt)
        h2 == CoalesceNext(p.h, p.it)
    IN [h2 EXCEPT !.freeMap = MultimapEmplace(h2.freeMap, h2.blocks[p.it].size, p.it)]

\* The number of size-index entries the loop of RemoveFromFreeMap examines:
\* it walks equal_range(blockIt->size) from its first entry up to the entry
\* whose iterator is blockIt, or to the end of the range when there is none.
RemoveFromFreeMapVisits(h, blockIt) ==
    LET size == h.blocks[blockIt].size
        range == {i \in 1..Len(h.freeMap) : h.freeMap[i].key = size}
        hits == {i \in range : h.freeMap[i].it = blockIt}
    IN IF hits = {} THEN Cardinality(range)
       ELSE Cardinality({i \in range : i <= Min(hits)})

\* The largest number of size-index entries one RemoveFromFreeMap call of
\* CoalesceAdjacentFreeBlocks(freedBlockIt) examines (0 when it merges nothing).
CoalesceVisits(h, freedBlockIt) ==
    LET p == CoalescePrev(h, freedBlockIt)
        n == CoalesceNext(p.h, p.it)
        prevVisits == IF Len(p.h.blocks) < Len(h.blocks)
                      THEN RemoveFromFreeMapVisits(h, freedBlockIt - 1) ELSE 0
        nextVisits == IF Len(n.blocks) < Len(p.h.blocks)
                      THEN RemoveFromFreeMapVisits(p.h, p.it + 1) ELSE 0
    IN Max({prevVisits, nextVisits})

\* The "no allocation found" branch after a lookup with m_allocations[offset],
\* which inserts a default AllocationInfo for an offset that has none.
FreeUnknown_OperatorBracket(h, offset) ==
    [h |-> [h EXCEPT !.allocs = MapPut(h.allocs, offset,
                [offset |-> 0, size |-> 0, blockIt |-> END])],
     path |-> "unknown", log |-> OutputDebugStringLog(TRUE), assert |-> TRUE]

\* The "no allocation found" branch logging without forceOutput.
FreeUnknown_NoForceOutput(h, offset) ==
    [h |-> h, path |-> "unknown", log |-> OutputDebugStringLog(FALSE), assert |-> TRUE]

\* HeapAllocator::Free, "if (allocIt == m_allocations.end())": log with
\* forceOutput, assert(false), return with the containers untouched.
FreeUnknown(h, offset) ==
    [h |-> h, path |-> "unknown", log |-> OutputDebugStringLog(TRUE), assert |-> TRUE]

\* HeapAllocator::Free: the new containers, the path taken ("sentinel": the
\* early return on (uint32_t)-1; "unknown": no allocation found; "freed"),
\* whether the call reached OutputDebugStringA and whether it reached assert(false).
FreeOp(h, offset) ==
    IF offset = INVALID_OFFSET
    THEN [h |-> h, path |-> "sentinel", log |-> FALSE, assert |-> FALSE]
    ELSE IF offset \notin DOMAIN h.allocs
    THEN FreeUnknown(h, offset)
    ELSE LET blockIt == h.allocs[offset].blockIt
             h1 == [h EXCEPT !.blocks[blockIt].isFree = TRUE,
                             !.allocs = MapErase(h.allocs, offset)]
         IN [h |-> CoalesceAdjacentFreeBlocks(h1, blockIt), path |-> "freed",
             log |-> OutputDebugStringLog(FALSE), assert |-> FALSE]

\* Sum of f over the blocks at the positions in S.
RECURSIVE SumSizes(_, _)
SumSizes(blocks, S) ==
    IF S = {} THEN 0
    ELSE LET i == Min(S) IN blocks[i].size + SumSizes(blocks, S \ {i})

\* HeapAllocator::GetStats. fragmentationRatio is the exact fraction
\* 1 - largestFreeBlock / freeSpace, kept as <<numerator, denominator>>.
GetStatsOp(h) ==
    LET used == {i \in 1..Len(h.blocks) : ~h.blocks[i].isFree}
        free == {i \in 1..Len(h.blocks) : h.blocks[i].isFree}
        totalSize == ToUint32(m_numElements * m_elementSize)
        usedSize == SumSizes(h.blocks, used)
        largestFreeBlock == IF free = {} THEN 0 ELSE Max({h.blocks[i].size : i \in free})
    IN [totalSize |-> totalSize,
        usedSize |-> usedSize,
        largestFreeBlock |-> largestFreeBlock,
        numAllocations |-> Cardinality(DOMAIN h.allocs),
        numFreeBlocks |-> Cardinality(free),
        fragmentationRatio |->
            IF totalSize > usedSize /\ largestFreeBlock > 0
            THEN <<(totalSize - usedSize) - largestFreeBlock, totalSize - usedSize>>
            ELSE <<0, 1>>]

\* HeapAllocator::~HeapAllocator: TRUE iff the destructor reaches
\* OutputDebugStringA. Both the warning and the line per outstanding allocation
\* go through OutputDebugStringLog without forceOutput.
DestructorOp(h) ==
    /\ Cardinality(DOMAIN h.allocs) > 0
    /\ OutputDebugStringLog(FALSE)

\* ---------------------------------------------------------------- HeapManager
\* HeapManager::Allocate returning the allocator's value as it is.
HeapManager_AllocateRet_NoBias(allocOffset) == allocOffset

\* HeapManager::Allocate, "m_heapAllocator->Allocate(allocationSize) +
\* RESERVED_OFFSET": the value returned for the allocator's value, in uint32_t.
HeapManager_AllocateRet(allocOffset) == ToUint32(allocOffset + RESERVED_OFFSET)

\* HeapManager::Free passing its argument on as it is.
HeapManager_FreeArg_NoBias(offset) == offset

\* HeapManager::Free, "offset - RESERVED_OFFSET": the offset passed to the
\* allocator, in uint32_t.
HeapManager_FreeArg(offset) == ToUint32(offset + UINT32_MOD - RESERVED_OFFSET)

\* HeapManager::Allocate and ReadbackHeapManager::Allocate without the mutex.
HeapManager_AllocateOp(h, allocationSize) ==
    LET r == AllocateOp(h, allocationSize)
    IN [h |-> r.h, ret |-> HeapManager_AllocateRet(r.ret), log |-> r.log]

\* HeapManager::Free and ReadbackHeapManager::Free without the mutex.
HeapManager_FreeOp(h, offset) == FreeOp(h, HeapManager_FreeArg(offset))

\* Addresses a resource of the HeapManager can have (m_gpuVirtualAddress,
\* m_mappedPtr): 64-bit values, here two above the uint32_t range.
ResourceBases == {UINT32_MOD, 4 * UINT32_MOD}

\* HeapManager::GetGPUVirtualAddress, for a resource at m_gpuVirtualAddress
\* (0 when the resource has no address).
GetGPUVirtualAddress(m_gpuVirtualAddress, offset) ==
    IF offset = 0 \/ offset < RESERVED_OFFSET \/ m_gpuVirtualAddress = 0
    THEN 0
    ELSE m_gpuVirtualAddress + (offset - RESERVED_OFFSET)

\* HeapManager::GetMappedPtr, for a resource mapped at m_mappedPtr (0: nullptr).
GetMappedPtr(m_mappedPtr, offset) ==
    IF offset = 0 \/ offset < RESERVED_OFFSET \/ m_mappedPtr = 0
    THEN 0
    ELSE m_mappedPtr + (offset - RESERVED_OFFSET)

\* HeapAllocator::Allocate up to and including SplitBlock, for a request that
\* finds a block: the containers and the locals blockIt, allocOffset, alignedSize.
AllocateBegin(h, allocationSize) ==
    LET alignedSize == ToUint32(AlignSize(allocationSize, m_alignment))
        blockIt == FindBestFitBlock(h, alignedSize)
        h1 == RemoveFromFreeMap(h, blockIt)
    IN [h |-> IF h1.blocks[blockIt].size > alignedSize
              THEN SplitBlock(h1, blockIt, alignedSize) ELSE h1,
        blockIt |-> blockIt,
        allocOffset |-> h.blocks[blockIt].offset,
        alignedSize |-> alignedSize]

\* HeapAllocator::Allocate from "Mark block as allocated" on.
AllocateEnd(h, blockIt, allocOffset, alignedSize) ==
    [h EXCEPT !.blocks[blockIt].isFree = FALSE,
              !.allocs = MapPut(h.allocs, allocOffset,
                  [offset |-> allocOffset, size |-> alignedSize, blockIt |-> blockIt])]

\* HeapAllocator::Free of a live offset up to CoalesceAdjacentFreeBlocks.
FreeBegin(h, offset) ==
    LET blockIt == h.allocs[offset].blockIt
    IN [h |-> [h EXCEPT !.blocks[blockIt].isFree = TRUE,
                        !.allocs = MapErase(h.allocs, offset)],
        blockIt |-> blockIt]

\* The locals of a thread that is in no call.
NoLocals == [op |-> "none", blockIt |-> END, allocOffset |-> 0, alignedSize |-> 0,
             value |-> 0, sequential |-> 0, log |-> FALSE, assert |-> FALSE]

\* The constructor's m_alignedSize without the rounding up to the alignment.
ConstructorAlignedSize_NoAlign(numElements, elementSize, alignment) ==
    ToUint32(numElements * elementSize)

\* HeapAllocator::HeapAllocator: totalSize = uint64_t(numElements) * elementSize,
\* m_alignedSize = static_cast<uint32_t>(AlignSize(totalSize, m_alignment)).
ConstructorAlignedSize(numElements, elementSize, alignment) ==
    ToUint32(AlignSize(numElements * elementSize, alignment))

\* ---------------------------------------------------------------- the state machine
\* The names of the Scene's heap managers and of the offsets it keeps in each.
SceneHeapManagers ==
    {"m_ASHeapManager", "m_defaultTemporaryHeapManager",
     "m_uploadTemporaryHeapManager", "m_readbackHeapManager"}
SceneOffsets ==
    {"m_vertexBufferOffset", "m_indexBufferOffset", "m_instanceDescBufferOffset",
     "m_blasScratchBufferOffset", "m_tlasScratchBufferOffset",
     "m_blasPostBuildInfoBufferOffset", "m_tlasPostBuildInfoBufferOffset",
     "m_topLevelASOffset", "m_bottomLevelASOffset"}

\* Scene::Scene and Scene::Initialize(device): nothing is built, the heap
\* managers have no allocator yet, and every offset is the null value 0.
SceneConstructed ==
    /\ scene = [m \in SceneOffsets \cup {"m_isBuilt"} |->
                    IF m = "m_isBuilt" THEN FALSE ELSE 0]
    /\ sceneHeaps = [hm \in SceneHeapManagers |->
                        [blocks |-> <<>>, freeMap |-> <<>>, allocs |-> EmptyMap]]
    /\ scenePc = "Initialized"
    /\ sceneFrees = <<>>

\* Number of swap-chain buffers, command allocators and fence values.
SWAP_CHAIN_BUFFER_COUNT == 3
BackBuffers == 0 .. (SWAP_CHAIN_BUFFER_COUNT - 1)

\* Application::Application: the member initialisers and the loop that
\* zeroes m_fenceValues. No thread runs, no fence and no queue exists.
ApplicationConstructed ==
    /\ m_isRunning = FALSE
    /\ m_windowCreated = FALSE
    /\ m_windowMutex = "free"
    /\ m_hwnd = FALSE
    /\ runPc = "Run"
    /\ msgPc = "notStarted"
    /\ m_fenceValues = [i \in BackBuffers |-> 0]
    /\ m_currentBackBufferIndex = 0
    /\ m_width = 1
    /\ currentFenceValue = 0
    /\ fenceCompleted = 0
    /\ commandQueue = <<>>
    /\ m_fenceEvent = FALSE
    /\ eventOnCompletion = 0
    /\ signalled = [i \in BackBuffers |-> 0]

\* HeapAllocator::HeapAllocator(numElements, elementSize, alignment,
\* outputDebugStringLogs), args being these four; no call has been made and
\* no thread is inside the HeapManager.
HeapAllocatorConstructed(args) ==
    /\ m_numElements = args[1]
    /\ m_elementSize = args[2]
    /\ m_alignment = args[3]
    /\ m_outputDebugStringLogs = args[4]
    /\ m_alignedSize = ConstructorAlignedSize(m_numElements, m_elementSize, m_alignment)
    /\ m_blocks = <<[offset |-> 0, size |-> m_alignedSize, isFree |-> TRUE]>>
    /\ m_freeBlocksBySizeMap = <<[key |-> m_alignedSize, it |-> 1]>>
    /\ m_allocations = EmptyMap
    /\ lastOp = "Init"
    /\ ret = 0
    /\ logOutput = FALSE
    /\ assertFailed = FALSE
    /\ aborted = FALSE
    /\ freedOffsets = {}
    /\ m_mutex = 0
    /\ pc = [t \in Threads |-> "idle"]
    /\ local = [t \in Threads |-> NoLocals]

\* The state after construction: one HeapAllocator, a Scene and the Application.
Init ==
    /\ \E args \in ConstructorArgs : HeapAllocatorConstructed(args)
    /\ SceneConstructed
    /\ ApplicationConstructed

SetHeap(h) ==
    /\ m_blocks' = h.blocks
    /\ m_freeBlocksBySizeMap' = h.freeMap
    /\ m_allocations' = h.allocs

\* The allocator exists and the process runs.
Alive == ~aborted /\ lastOp # "~HeapAllocator"

\* uint32_t HeapAllocator::Allocate(uint32_t allocationSize)
Allocate(allocationSize) ==
    LET r == AllocateOp(Heap, allocationSize)
    IN /\ Alive
       /\ Cardinality({i \in 1..Len(r.h.blocks) : r.h.blocks[i].size = 0}) <= MaxZeroSized
       /\ SetHeap(r.h)
       /\ lastOp' = "Allocate"
       /\ ret' = r.ret
       /\ logOutput' = r.log
       /\ assertFailed' = FALSE
       /\ freedOffsets' = freedOffsets \ {r.ret}
       /\ UNCHANGED <<appVars, config, aborted, threadVars>>

\* void HeapAllocator::Free(uint32_t offset). assert(false) ends the process in
\* a debug build and is compiled out in a release build.
Free(offset) ==
    LET r == FreeOp(Heap, offset)
    IN /\ Alive
       /\ SetHeap(r.h)
       /\ lastOp' = "Free"
       /\ ret' = [path |-> r.path, merged |-> Len(m_blocks) - Len(r.h.blocks),
                  doubleFree |-> offset \in freedOffsets]
       /\ logOutput' = r.log
       /\ assertFailed' = r.assert
       /\ aborted' \in (IF r.assert THEN BOOLEAN ELSE {FALSE})
       /\ freedOffsets' = IF r.path = "freed" THEN freedOffsets \cup {offset} ELSE freedOffsets
       /\ UNCHANGED <<appVars, config, threadVars>>

\* HeapAllocationStats HeapAllocator::GetStats() const
GetStats ==
    /\ Alive
    /\ lastOp' = "GetStats"
    /\ ret' = GetStatsOp(Heap)
    /\ logOutput' = FALSE
    /\ assertFailed' = FALSE
    /\ UNCHANGED <<appVars, config, heapVars, aborted, freedOffsets, threadVars>>

\* HeapAllocator::~HeapAllocator. ret is the number of allocations that are
\* outstanding when it runs; no call follows it.
Destructor ==
    /\ Alive
    /\ lastOp' = "~HeapAllocator"
    /\ ret' = Cardinality(DOMAIN m_allocations)
    /\ logOutput' = DestructorOp(Heap)
    /\ assertFailed' = FALSE
    /\ freedOffsets' = {}
    /\ UNCHANGED <<appVars, config, heapVars, aborted, threadVars>>

Next ==
    \/ \E allocationSize \in Uint32 : Allocate(allocationSize)
    \/ \E offset \in Uint32 : Free(offset)
    \/ GetStats
    \/ Destructor

Spec == Init /\ [][Next]_vars

\* ---------------------------------------------------------------- HeapManager, called by several threads
\* A thread is "idle" (in no call), "locked" (it holds m_mutex and has not
\* entered the allocator), "mid" (the allocator has split or unlinked and has
\* not yet recorded or coalesced) or "done" (the allocator has returned and
\* the lock_guard is not yet destroyed). local[t].value is the value the call
\* returns (for Free, which returns nothing, the path it took);
\* local[t].sequential is what the allocator call, run alone on the containers
\* it found, returns and leaves; local[t].log and local[t].assert tell whether
\* the call reached OutputDebugStringA and assert(false).

\* std::mutex::lock without waiting for the owner.
MutexLock_NoWait(t) == m_mutex' = t

\* std::mutex::lock, by the constructor of std::lock_guard.
MutexLock(t) == m_mutex = 0 /\ m_mutex' = t

\* std::lock_guard<std::mutex> lock(m_mutex): the first statement of
\* HeapManager::Allocate, Free and GetStats.
lock_guard(t) ==
    /\ Alive
    /\ pc[t] = "idle"
    /\ MutexLock(t)
    /\ pc' = [pc EXCEPT ![t] = "locked"]
    /\ UNCHANGED <<appVars, config, heapVars, callVars, local>>

\* HeapManager::Allocate: m_heapAllocator->Allocate(allocationSize), up to its
\* failure return or to the end of SplitBlock.
HeapManager_Allocate(t, allocationSize) ==
    LET r == AllocateOp(Heap, allocationSize)
        seq == [h |-> r.h, ret |-> HeapManager_AllocateRet(r.ret)]
    IN /\ Alive
       /\ pc[t] = "locked"
       /\ Cardinality({i \in 1..Len(r.h.blocks) : r.h.blocks[i].size = 0}) <= MaxZeroSized
       /\ IF r.ret = INVALID_OFFSET
          THEN /\ pc' = [pc EXCEPT ![t] = "done"]
               /\ local' = [local EXCEPT ![t] =
                     [NoLocals EXCEPT !.op = "Allocate", !.sequential = seq, !.log = r.log,
                                      !.value = HeapManager_AllocateRet(INVALID_OFFSET)]]
               /\ UNCHANGED heapVars
          ELSE LET b == AllocateBegin(Heap, allocationSize)
               IN /\ SetHeap(b.h)
                  /\ pc' = [pc EXCEPT ![t] = "mid"]
                  /\ local' = [local EXCEPT ![t] =
                        [NoLocals EXCEPT !.op = "Allocate", !.sequential = seq,
                                         !.blockIt = b.blockIt,
                                         !.allocOffset = b.allocOffset,
                                         !.alignedSize = b.alignedSize]]
       /\ UNCHANGED <<appVars, config, m_mutex, callVars>>

\* HeapAllocator::Allocate from "Mark block as allocated" to its return,
\* and the "+ RESERVED_OFFSET" of HeapManager::Allocate.
AllocateFinish(t) ==
    /\ Alive
    /\ pc[t] = "mid"
    /\ local[t].op = "Allocate"
    /\ SetHeap(AllocateEnd(Heap, local[t].blockIt, local[t].allocOffset, local[t].alignedSize))
    /\ pc' = [pc EXCEPT ![t] = "done"]
    /\ local' = [local EXCEPT ![t].value = HeapManager_AllocateRet(local[t].allocOffset),
                              ![t].log = OutputDebugStringLog(FALSE)]
    /\ UNCHANGED <<appVars, config, m_mutex, callVars>>

\* HeapManager::Free: m_heapAllocator->Free(offset - RESERVED_OFFSET), up to
\* its early returns or to the call of CoalesceAdjacentFreeBlocks.
HeapManager_Free(t, offset) ==
    LET internal == HeapManager_FreeArg(offset)
        r == FreeOp(Heap, internal)
    IN /\ Alive
       /\ pc[t] = "locked"
       /\ IF r.path # "freed"
          THEN /\ pc' = [pc EXCEPT ![t] = "done"]
               /\ local' = [local EXCEPT ![t] =
                     [NoLocals EXCEPT !.op = "Free", !.sequential = [h |-> r.h, ret |-> r.path],
                                      !.value = r.path, !.log = r.log, !.assert = r.assert]]
               /\ UNCHANGED heapVars
          ELSE LET b == FreeBegin(Heap, internal)
               IN /\ SetHeap(b.h)
                  /\ pc' = [pc EXCEPT ![t] = "mid"]
                  /\ local' = [local EXCEPT ![t] =
                        [NoLocals EXCEPT !.op = "Free", !.sequential = [h |-> r.h, ret |-> r.path],
                                         !.blockIt = b.blockIt, !.log = OutputDebugStringLog(FALSE)]]
       /\ aborted' \in (IF r.assert THEN BOOLEAN ELSE {FALSE})
       /\ UNCHANGED <<appVars, config, m_mutex, lastOp, ret, logOutput, assertFailed, freedOffsets>>

\* HeapAllocator::Free: CoalesceAdjacentFreeBlocks(blockIt) and the return.
FreeFinish(t) ==
    /\ Alive
    /\ pc[t] = "mid"
    /\ local[t].op = "Free"
    /\ SetHeap(CoalesceAdjacentFreeBlocks(Heap, local[t].blockIt))
    /\ pc' = [pc EXCEPT ![t] = "done"]
    /\ local' = [local EXCEPT ![t].value = "freed"]
    /\ UNCHANGED <<appVars, config, m_mutex, callVars>>

\* HeapManager::GetStats: m_heapAllocator->GetStats().
HeapManager_GetStats(t) ==
    /\ Alive
    /\ pc[t] = "locked"
    /\ pc' = [pc EXCEPT ![t] = "done"]
    /\ local' = [local EXCEPT ![t] =
          [NoLocals EXCEPT !.op = "GetStats", !.value = GetStatsOp(Heap),
                           !.sequential = [h |-> Heap, ret |-> GetStatsOp(Heap)]]]
    /\ UNCHANGED <<appVars, config, heapVars, m_mutex, callVars>>

\* The return of the HeapManager call: the lock_guard's destructor unlocks
\* m_mutex and the caller has the value.
Return(t) ==
    /\ Alive
    /\ pc[t] = "done"
    /\ m_mutex' = 0
    /\ pc' = [pc EXCEPT ![t] = "idle"]
    /\ local' = [local EXCEPT ![t] = NoLocals]
    /\ UNCHANGED <<appVars, config, heapVars, callVars>>

\* HeapManager::Initialize constructs the allocator with alignment = elementSize.
InitHM == Init /\ m_alignment = m_elementSize

NextHM ==
    \E t \in Threads :
        \/ lock_guard(t)
        \/ \E allocationSize \in Uint32 : HeapManager_Allocate(t, allocationSize)
        \/ AllocateFinish(t)
        \/ \E offset \in Uint32 : HeapManager_Free(t, offset)
        \/ FreeFinish(t)
        \/ HeapManager_GetStats(t)
        \/ Return(t)

SpecHM == InitHM /\ [][NextHM]_vars

\* ---------------------------------------------------------------- the Scene
\* Scene::BuildAccelerationStructures initialises its four heap managers with
\* elements of 256 bytes and alignment = elementSize. The model keeps sizes
\* in units of 128 bytes: an element is 2 units, and a heap has
\* SceneNumElements elements (1024 * 10 and 32 * 1024 in the program, where
\* no request of the Scene's own buffers fails either).
SceneElementSize == 2
SceneNumElements == 6

\* sizeof(Vertex) * 20 (800 bytes), sizeof(uint32_t) * 30 (120 bytes),
\* sizeof(D3D12_RAYTRACING_INSTANCE_DESC) (64 bytes) and
\* sizeof(D3D12_RAYTRACING_ACCELERATION_STRUCTURE_POSTBUILD_INFO_CURRENT_SIZE_DESC)
\* (8 bytes), in units of 128 bytes, rounded up.
vertexBufferSize == 7
indexBufferSize == 1
InstanceDescSize == 1
PostBuildInfoSize == 1

\* prebuildInfo.ScratchDataSizeInBytes and prebuildInfo.ResultDataMaxSizeInBytes
\* as the device reports them: within one element, several elements, and
\* more than a heap holds.
PrebuildSizes == {1, 4, 2 * SceneNumElements + 1}

\* The Scene's members, heaps and Free calls as one value.
SceneState == [m |-> scene, heaps |-> sceneHeaps, frees |-> sceneFrees]

\* HeapManager::Initialize: a HeapAllocator of one free block.
HeapManager_Initialize(numElements, elementSize) ==
    LET alignedSize == ConstructorAlignedSize(numElements, elementSize, elementSize)
    IN [blocks |-> <<[offset |-> 0, size |-> alignedSize, isFree |-> TRUE]>>,
        freeMap |-> <<[key |-> alignedSize, it |-> 1]>>,
        allocs |-> EmptyMap]

\* "member = heapManager.Allocate(size)"
Scene_Allocate(st, heapManager, member, size) ==
    LET r == HeapManager_AllocateOp(st.heaps[heapManager], size)
    IN [st EXCEPT !.heaps[heapManager] = r.h, !.m[member] = r.ret]

\* "heapManager.Free(member)" in function caller: the call is recorded with
\* the offset it passes, whether that offset is live in the heap at the call,
\* and the path HeapAllocator::Free takes. The member keeps its value.
Scene_Free(st, heapManager, member, caller) ==
    LET offset == st.m[member]
        r == HeapManager_FreeOp(st.heaps[heapManager], offset)
    IN [st EXCEPT !.heaps[heapManager] = r.h,
                  !.frees = Append(@, [caller |-> caller, heapManager |-> heapManager,
                                       member |-> member, offset |-> offset,
                                       live |-> HeapManager_FreeArg(offset)
                                                  \in DOMAIN st.heaps[heapManager].allocs,
                                       path |-> r.path, assert |-> r.assert])]

\* Scene::CreateCornellBoxGeometry
CreateCornellBoxGeometryOp(st) ==
    LET s1 == Scene_Allocate(st, "m_uploadTemporaryHeapManager", "m_vertexBufferOffset", vertexBufferSize)
    IN Scene_Allocate(s1, "m_uploadTemporaryHeapManager", "m_indexBufferOffset", indexBufferSize)

\* Scene::CreateBottomLevelAS, the device reporting the two prebuild sizes.
CreateBottomLevelASOp(st, scratchDataSize, resultDataMaxSize) ==
    IF st.m["m_vertexBufferOffset"] = 0 \/ st.m["m_indexBufferOffset"] = 0
    THEN st
    ELSE LET s1 == Scene_Allocate(st, "m_defaultTemporaryHeapManager", "m_blasScratchBufferOffset", ToUint32(scratchDataSize))
             s2 == Scene_Allocate(s1, "m_ASHeapManager", "m_bottomLevelASOffset", ToUint32(resultDataMaxSize))
         IN Scene_Allocate(s2, "m_readbackHeapManager", "m_blasPostBuildInfoBufferOffset", PostBuildInfoSize)

\* Scene::CreateTopLevelAS, the device reporting the two prebuild sizes.
CreateTopLevelASOp(st, scratchDataSize, resultDataMaxSize) ==
    IF st.m["m_bottomLevelASOffset"] = 0
    THEN st
    ELSE LET s1 == Scene_Allocate(st, "m_uploadTemporaryHeapManager", "m_instanceDescBufferOffset", InstanceDescSize)
             s2 == Scene_Allocate(s1, "m_defaultTemporaryHeapManager", "m_tlasScratchBufferOffset", ToUint32(scratchDataSize))
             s3 == Scene_Allocate(s2, "m_ASHeapManager", "m_topLevelASOffset", ToUint32(resultDataMaxSize))
         IN Scene_Allocate(s3, "m_readbackHeapManager", "m_tlasPostBuildInfoBufferOffset", PostBuildInfoSize)

\* The Free calls of Scene::FreeTemporaryResources, in order: the heap manager
\* and the member whose value is passed.
FreeTemporaryResourcesCalls ==
    << <<"m_uploadTemporaryHeapManager", "m_vertexBufferOffset">>,
       <<"m_uploadTemporaryHeapManager", "m_indexBufferOffset">>,
       <<"m_uploadTemporaryHeapManager", "m_instanceDescBufferOffset">>,
       <<"m_defaultTemporaryHeapManager", "m_blasScratchBufferOffset">>,
       <<"m_defaultTemporaryHeapManager", "m_tlasScratchBufferOffset">>,
       <<"m_readbackHeapManager", "m_blasPostBuildInfoBufferOffset">>,
       <<"m_readbackHeapManager", "m_tlasPostBuildInfoBufferOffset">> >>

\* The Free calls of Scene::~Scene, in order: the same seven, then the two of
\* the acceleration structures.
DestructorCalls ==
    FreeTemporaryResourcesCalls \o
    << <<"m_ASHeapManager", "m_topLevelASOffset">>,
       <<"m_ASHeapManager", "m_bottomLevelASOffset">> >>

\* The number of Free calls function caller has made.
FreeCallsOf(caller) ==
    Cardinality({k \in 1..Len(sceneFrees) : sceneFrees[k].caller = caller})

SetScene(st) ==
    /\ scene' = st.m
    /\ sceneHeaps' = st.heaps
    /\ sceneFrees' = st.frees

\* Scene::BuildAccelerationStructures up to the call of CreateCornellBoxGeometry:
\* it returns at once when m_isBuilt, and initialises the four heap managers.
BuildAccelerationStructures ==
    /\ scenePc = "Initialized"
    /\ ~scene["m_isBuilt"]
    /\ sceneHeaps' = [hm \in SceneHeapManagers |->
                         HeapManager_Initialize(SceneNumElements, SceneElementSize)]
    /\ scenePc' = "CreateCornellBoxGeometry"
    /\ UNCHANGED <<scene, sceneFrees, windowVars, frameVars, allocatorVars>>

CreateCornellBoxGeometry ==
    /\ scenePc = "CreateCornellBoxGeometry"
    /\ SetScene(CreateCornellBoxGeometryOp(SceneState))
    /\ scenePc' = "CreateBottomLevelAS"
    /\ UNCHANGED <<windowVars, frameVars, allocatorVars>>

CreateBottomLevelAS ==
    /\ scenePc = "CreateBottomLevelAS"
    /\ \E scratchDataSize, resultDataMaxSize \in PrebuildSizes :
          SetScene(CreateBottomLevelASOp(SceneState, scratchDataSize, resultDataMaxSize))
    /\ scenePc' = "CreateTopLevelAS"
    /\ UNCHANGED <<windowVars, frameVars, allocatorVars>>

CreateTopLevelAS ==
    /\ scenePc = "CreateTopLevelAS"
    /\ \E scratchDataSize, resultDataMaxSize \in PrebuildSizes :
          SetScene(CreateTopLevelASOp(SceneState, scratchDataSize, resultDataMaxSize))
    /\ scenePc' = "ExecuteCommandLists"
    /\ UNCHANGED <<windowVars, frameVars, allocatorVars>>

\* Close, ExecuteCommandLists, Reset and WaitForGPU: ThrowIfFailed ends the
\* process with ExitProcess(1) when a call fails, and no destructor runs.
ExecuteCommandLists ==
    /\ scenePc = "ExecuteCommandLists"
    /\ \E failed \in BOOLEAN :
          scenePc' = IF failed THEN "ExitProcess" ELSE "FreeTemporaryResources"
    /\ UNCHANGED <<scene, sceneHeaps, sceneFrees, windowVars, frameVars, allocatorVars>>

\* ReadbackPostBuildInfo (which changes nothing) and FreeTemporaryResources,
\* one Free call a step; after the last one, "m_isBuilt = true" and the return.
FreeTemporaryResources ==
    /\ scenePc = "FreeTemporaryResources"
    /\ LET k == FreeCallsOf("FreeTemporaryResources") + 1
           call == FreeTemporaryResourcesCalls[k]
           st == Scene_Free(SceneState, call[1], call[2], "FreeTemporaryResources")
       IN IF k < Len(FreeTemporaryResourcesCalls)
          THEN SetScene(st) /\ scenePc' = scenePc
          ELSE SetScene([st EXCEPT !.m["m_isBuilt"] = TRUE]) /\ scenePc' = "Built"
    /\ UNCHANGED <<windowVars, frameVars, allocatorVars>>

\* Scene::~Scene, after BuildAccelerationStructures has returned, one Free
\* call a step.
Scene_Destructor ==
    /\ scenePc \in {"Built", "~Scene"}
    /\ LET k == FreeCallsOf("~Scene") + 1
           call == DestructorCalls[k]
       IN /\ SetScene(Scene_Free(SceneState, call[1], call[2], "~Scene"))
          /\ scenePc' = IF k < Len(DestructorCalls) THEN "~Scene" ELSE "destroyed"
    /\ UNCHANGED <<windowVars, frameVars, allocatorVars>>

InitScene ==
    /\ HeapAllocatorConstructed(<<SceneNumElements, SceneElementSize, SceneElementSize, FALSE>>)
    /\ SceneConstructed
    /\ ApplicationConstructed

NextScene ==
    \/ BuildAccelerationStructures
    \/ CreateCornellBoxGeometry
    \/ CreateBottomLevelAS
    \/ CreateTopLevelAS
    \/ ExecuteCommandLists
    \/ FreeTemporaryResources
    \/ Scene_Destructor

SpecScene == InitScene /\ [][NextScene]_vars

\* ---------------------------------------------------------------- the Application
\* The main thread runs Application::Run, the message thread runs
\* Application::MessagePumpThread, and the GPU executes m_commandQueue in order.
\* Fence values are uint64_t and are not taken past MaxFenceValue.
MaxFenceValue == 5

\* The sizes GetClientRect reports: 0 for a minimised window.
ClientSizes == {0, 1, 2}

\* ID3D12CommandQueue::Signal and ExecuteCommandLists: entries of the queue.
QueueSignal(value) == [type |-> "Signal", value |-> value]
QueueExecute(allocator) == [type |-> "Execute", value |-> allocator]

\* MoveToNextFrame never waiting for the next frame's fence value.
FrameNotReady_Never(completedValue, fenceValue) == FALSE

\* MoveToNextFrame, "m_fence->GetCompletedValue() < m_fenceValues[m_currentBackBufferIndex]".
FrameNotReady(completedValue, fenceValue) == completedValue < fenceValue

\* ID3D12Fence::SetEventOnCompletion(value, m_fenceEvent): the event is set
\* at once when the fence has reached the value, and by the GPU otherwise.
SetEventOnCompletion(value) ==
    IF fenceCompleted >= value
    THEN m_fenceEvent' = TRUE /\ eventOnCompletion' = 0
    ELSE m_fenceEvent' = m_fenceEvent /\ eventOnCompletion' = value

\* WaitForSingleObjectEx(m_fenceEvent, ...) returning for the signalled
\* auto-reset event, at once or after the 200 ms warning.
WaitForSingleObjectEx ==
    /\ m_fenceEvent
    /\ m_fenceEvent' = FALSE
    /\ eventOnCompletion' = eventOnCompletion

\* Application::WaitForGpu up to its wait.
WaitForGpu_Signal ==
    /\ commandQueue' = Append(commandQueue, QueueSignal(m_fenceValues[m_currentBackBufferIndex]))
    /\ SetEventOnCompletion(m_fenceValues[m_currentBackBufferIndex])

\* Run: "m_isRunning = true" and the start of the message thread.
Run_Start ==
    /\ runPc = "Run"
    /\ m_isRunning' = TRUE
    /\ msgPc' = "CreateApplicationWindow"
    /\ runPc' = "unique_lock"
    /\ UNCHANGED <<m_windowCreated, m_windowMutex, m_hwnd, frameVars, sceneVars, allocatorVars>>

\* Run: std::unique_lock<std::mutex> lock(m_windowMutex), and the lock taken
\* again inside wait after a wake-up.
Run_Lock ==
    /\ runPc \in {"unique_lock", "relock"}
    /\ m_windowMutex = "free"
    /\ m_windowMutex' = "Run"
    /\ runPc' = "wait"
    /\ UNCHANGED <<m_isRunning, m_windowCreated, m_hwnd, msgPc, frameVars, sceneVars, allocatorVars>>

\* Run: m_windowCreatedCV.wait(lock, pred), which is "while (!pred())
\* wait(lock);": the predicate is evaluated with the lock held; when it holds
\* wait returns and the block ends, releasing the lock.
Run_Wait ==
    /\ runPc = "wait"
    /\ IF m_windowCreated \/ ~m_isRunning
       THEN m_windowMutex' = "free" /\ runPc' = "windowCreated?"
       ELSE m_windowMutex' = m_windowMutex /\ runPc' = "wait(lock)"
    /\ UNCHANGED <<m_isRunning, m_windowCreated, m_hwnd, msgPc, frameVars, sceneVars, allocatorVars>>

\* Run: wait(lock) releases the lock and blocks, in one step.
Run_Block ==
    /\ runPc = "wait(lock)"
    /\ m_windowMutex' = "free"
    /\ runPc' = "blocked"
    /\ UNCHANGED <<m_isRunning, m_windowCreated, m_hwnd, msgPc, frameVars, sceneVars, allocatorVars>>

\* Run: "if (!m_windowCreated) return -1;", else OnInit, whose
\* CreateSynchronizationObjects creates the fence and the event.
Run_OnInit ==
    /\ runPc = "windowCreated?"
    /\ IF ~m_windowCreated
       THEN /\ runPc' = "return -1"
            /\ UNCHANGED m_fenceValues
       ELSE /\ runPc' = "while"
            /\ m_fenceValues' = [m_fenceValues EXCEPT ![m_currentBackBufferIndex] = @ + 1]
    /\ UNCHANGED <<m_isRunning, m_windowCreated, m_windowMutex, m_hwnd, msgPc,
                   m_currentBackBufferIndex, m_width, currentFenceValue, fenceCompleted,
                   commandQueue, m_fenceEvent, eventOnCompletion, signalled,
                   sceneVars, allocatorVars>>

\* Run: "while (m_isRunning)", OnUpdate, and OnRender's ResizeSwapChain up to
\* WaitForGpu's wait; ResizeSwapChain returns at once for a size of 0 and for
\* the size the swap chain has.
ResizeSwapChain ==
    /\ runPc = "while"
    /\ IF ~m_isRunning
       THEN /\ runPc' = "OnDestroy"
            /\ UNCHANGED <<commandQueue, m_fenceEvent, eventOnCompletion>>
       ELSE /\ m_fenceValues[m_currentBackBufferIndex] < MaxFenceValue
            /\ \E width \in ClientSizes :
                  IF width = 0 \/ width = m_width
                  THEN /\ runPc' = "OnRender"
                       /\ UNCHANGED <<commandQueue, m_fenceEvent, eventOnCompletion>>
                  ELSE /\ runPc' = "ResizeSwapChain_WaitForGpu"
                       /\ WaitForGpu_Signal
    /\ UNCHANGED <<m_isRunning, m_windowCreated, m_windowMutex, m_hwnd, msgPc,
                   m_fenceValues, m_currentBackBufferIndex, m_width, currentFenceValue,
                   fenceCompleted, signalled, sceneVars, allocatorVars>>

\* ResizeSwapChain from the end of WaitForGpu's wait: the fence value of the
\* frame is incremented, ResizeBuffers gives a back-buffer index, and the
\* fence values are reset to 0 but for the current buffer's.
ResizeSwapChain_Resize ==
    /\ runPc = "ResizeSwapChain_WaitForGpu"
    /\ WaitForSingleObjectEx
    /\ \E index \in BackBuffers, width \in ClientSizes \ {0, m_width} :
          LET latestFenceValue == m_fenceValues[m_currentBackBufferIndex] + 1
          IN /\ m_currentBackBufferIndex' = index
             /\ m_fenceValues' = [i \in BackBuffers |-> IF i = index THEN latestFenceValue ELSE 0]
             /\ m_width' = width
    /\ runPc' = "OnRender"
    /\ UNCHANGED <<m_isRunning, m_windowCreated, m_windowMutex, m_hwnd, msgPc,
                   currentFenceValue, fenceCompleted, commandQueue, signalled,
                   sceneVars, allocatorVars>>

\* OnRender from the Reset of m_commandAllocators[m_currentBackBufferIndex] to
\* Present: the frame recorded with that allocator goes to the queue.
OnRender ==
    /\ runPc = "OnRender"
    /\ commandQueue' = Append(commandQueue, QueueExecute(m_currentBackBufferIndex))
    /\ runPc' = "MoveToNextFrame"
    /\ UNCHANGED <<m_isRunning, m_windowCreated, m_windowMutex, m_hwnd, msgPc,
                   m_fenceValues, m_currentBackBufferIndex, m_width, currentFenceValue,
                   fenceCompleted, m_fenceEvent, eventOnCompletion, signalled,
                   sceneVars, allocatorVars>>

\* MoveToNextFrame: Signal(currentFenceValue) and the swap chain's next index.
MoveToNextFrame ==
    /\ runPc = "MoveToNextFrame"
    /\ currentFenceValue' = m_fenceValues[m_currentBackBufferIndex]
    /\ commandQueue' = Append(commandQueue, QueueSignal(m_fenceValues[m_currentBackBufferIndex]))
    /\ signalled' = [signalled EXCEPT ![m_currentBackBufferIndex] =
                        m_fenceValues[m_currentBackBufferIndex]]
    /\ \E index \in BackBuffers : m_currentBackBufferIndex' = index
    /\ runPc' = "GetCompletedValue"
    /\ UNCHANGED <<m_isRunning, m_windowCreated, m_windowMutex, m_hwnd, msgPc,
                   m_fenceValues, m_width, fenceCompleted, m_fenceEvent, eventOnCompletion,
                   sceneVars, allocatorVars>>

\* MoveToNextFrame: "if (GetCompletedValue() < m_fenceValues[...])" with
\* SetEventOnCompletion, or the new fence value when there is nothing to wait for.
MoveToNextFrame_Check ==
    /\ runPc = "GetCompletedValue"
    /\ IF FrameNotReady(fenceCompleted, m_fenceValues[m_currentBackBufferIndex])
       THEN /\ SetEventOnCompletion(m_fenceValues[m_currentBackBufferIndex])
            /\ runPc' = "MoveToNextFrame_Wait"
            /\ UNCHANGED m_fenceValues
       ELSE /\ m_fenceValues' = [m_fenceValues EXCEPT ![m_currentBackBufferIndex] =
                                    currentFenceValue + 1]
            /\ runPc' = "while"
            /\ UNCHANGED <<m_fenceEvent, eventOnCompletion>>
    /\ UNCHANGED <<m_isRunning, m_windowCreated, m_windowMutex, m_hwnd, msgPc,
                   m_currentBackBufferIndex, m_width, currentFenceValue, fenceCompleted,
                   commandQueue, signalled, sceneVars, allocatorVars>>

\* MoveToNextFrame from the end of its wait.
MoveToNextFrame_Wait ==
    /\ runPc = "MoveToNextFrame_Wait"
    /\ WaitForSingleObjectEx
    /\ m_fenceValues' = [m_fenceValues EXCEPT ![m_currentBackBufferIndex] = currentFenceValue + 1]
    /\ runPc' = "while"
    /\ UNCHANGED <<m_isRunning, m_windowCreated, m_windowMutex, m_hwnd, msgPc,
                   m_currentBackBufferIndex, m_width, currentFenceValue, fenceCompleted,
                   commandQueue, signalled, sceneVars, allocatorVars>>

\* OnDestroy: WaitForGpu up to its wait.
OnDestroy ==
    /\ runPc = "OnDestroy"
    /\ WaitForGpu_Signal
    /\ runPc' = "OnDestroy_WaitForGpu"
    /\ UNCHANGED <<m_isRunning, m_windowCreated, m_windowMutex, m_hwnd, msgPc,
                   m_fenceValues, m_currentBackBufferIndex, m_width, currentFenceValue,
                   fenceCompleted, signalled, sceneVars, allocatorVars>>

\* OnDestroy from the end of WaitForGpu's wait; Run returns 0.
OnDestroy_Return ==
    /\ runPc = "OnDestroy_WaitForGpu"
    /\ WaitForSingleObjectEx
    /\ m_fenceValues' = [m_fenceValues EXCEPT ![m_currentBackBufferIndex] = @ + 1]
    /\ runPc' = "return 0"
    /\ UNCHANGED <<m_isRunning, m_windowCreated, m_windowMutex, m_hwnd, msgPc,
                   m_currentBackBufferIndex, m_width, currentFenceValue, fenceCompleted,
                   commandQueue, signalled, sceneVars, allocatorVars>>

\* The main thread.
RunThread ==
    \/ Run_Start
    \/ Run_Lock
    \/ Run_Wait
    \/ Run_Block
    \/ Run_OnInit
    \/ ResizeSwapChain
    \/ ResizeSwapChain_Resize
    \/ OnRender
    \/ MoveToNextFrame
    \/ MoveToNextFrame_Check
    \/ MoveToNextFrame_Wait
    \/ OnDestroy
    \/ OnDestroy_Return

\* CreateApplicationWindow up to its outcome: RegisterClassExW or CreateWindowW
\* fails, or the window exists and WM_CREATE has stored m_hwnd.
CreateApplicationWindow ==
    /\ msgPc = "CreateApplicationWindow"
    /\ \E failed \in BOOLEAN :
          /\ m_hwnd' = ~failed
          /\ msgPc' = IF failed THEN "m_isRunning = false" ELSE "lock_guard"
    /\ UNCHANGED <<m_isRunning, m_windowCreated, m_windowMutex, runPc, frameVars,
                   sceneVars, allocatorVars>>

\* CreateApplicationWindow, failure: "m_isRunning = false;", without m_windowMutex.
CreateApplicationWindow_Failed ==
    /\ msgPc = "m_isRunning = false"
    /\ m_isRunning' = FALSE
    /\ msgPc' = "notify_all"
    /\ UNCHANGED <<m_windowCreated, m_windowMutex, m_hwnd, runPc, frameVars,
                   sceneVars, allocatorVars>>

\* CreateApplicationWindow, success: std::lock_guard<std::mutex> lock(m_windowMutex).
CreateApplicationWindow_Lock ==
    /\ msgPc = "lock_guard"
    /\ m_windowMutex = "free"
    /\ m_windowMutex' = "MessagePumpThread"
    /\ msgPc' = "m_windowCreated = true"
    /\ UNCHANGED <<m_isRunning, m_windowCreated, m_hwnd, runPc, frameVars,
                   sceneVars, allocatorVars>>

\* CreateApplicationWindow, success: "m_windowCreated = true;" and the end of
\* the lock_guard's block.
CreateApplicationWindow_Created ==
    /\ msgPc = "m_windowCreated = true"
    /\ m_windowCreated' = TRUE
    /\ m_windowMutex' = "free"
    /\ msgPc' = "notify_all"
    /\ UNCHANGED <<m_isRunning, m_hwnd, runPc, frameVars, sceneVars, allocatorVars>>

\* m_windowCreatedCV.notify_all(): a thread that is blocked in wait wakes up,
\* a thread that is not blocked does not notice. CreateApplicationWindow returns.
notify_all ==
    /\ msgPc = "notify_all"
    /\ runPc' = IF runPc = "blocked" THEN "relock" ELSE runPc
    /\ msgPc' = "GetMessage"
    /\ UNCHANGED <<m_isRunning, m_windowCreated, m_windowMutex, m_hwnd, frameVars,
                   sceneVars, allocatorVars>>

\* MessagePumpThread: "while (m_isRunning && GetMessage(...))" ending because
\* m_isRunning is false, and DestroyWindow.
MessagePumpThread_Exit ==
    /\ msgPc = "GetMessage"
    /\ ~m_isRunning
    /\ m_hwnd' = FALSE
    /\ msgPc' = "returned"
    /\ UNCHANGED <<m_isRunning, m_windowCreated, m_windowMutex, runPc, frameVars,
                   sceneVars, allocatorVars>>

\* The message thread.
MessageThread ==
    \/ CreateApplicationWindow
    \/ CreateApplicationWindow_Failed
    \/ CreateApplicationWindow_Lock
    \/ CreateApplicationWindow_Created
    \/ notify_all
    \/ MessagePumpThread_Exit

\* WindowProc for WM_DESTROY, and for VK_ESCAPE: "m_isRunning = false", when
\* the user closes the window.
WindowProc_WM_DESTROY ==
    /\ msgPc = "GetMessage"
    /\ m_isRunning
    /\ m_hwnd
    /\ m_isRunning' = FALSE
    /\ UNCHANGED <<m_windowCreated, m_windowMutex, m_hwnd, runPc, msgPc, frameVars,
                   sceneVars, allocatorVars>>

\* A wake-up of std::condition_variable::wait without a notification, which
\* the implementation may produce and need not.
SpuriousWakeup ==
    /\ runPc = "blocked"
    /\ runPc' = "relock"
    /\ UNCHANGED <<m_isRunning, m_windowCreated, m_windowMutex, m_hwnd, msgPc, frameVars,
                   sceneVars, allocatorVars>>

\* The GPU executes the first entry of the queue; a Signal sets the fence and
\* the event of a SetEventOnCompletion whose value the fence has reached.
GpuExecute ==
    /\ commandQueue # <<>>
    /\ commandQueue' = Tail(commandQueue)
    /\ IF Head(commandQueue).type = "Signal"
       THEN /\ fenceCompleted' = Head(commandQueue).value
            /\ IF eventOnCompletion # 0 /\ Head(commandQueue).value >= eventOnCompletion
               THEN m_fenceEvent' = TRUE /\ eventOnCompletion' = 0
               ELSE UNCHANGED <<m_fenceEvent, eventOnCompletion>>
       ELSE UNCHANGED <<fenceCompleted, m_fenceEvent, eventOnCompletion>>
    /\ UNCHANGED <<windowVars, m_fenceValues, m_currentBackBufferIndex, m_width,
                   currentFenceValue, signalled, sceneVars, allocatorVars>>

InitApp ==
    /\ HeapAllocatorConstructed(<<1, 4, 4, FALSE>>)
    /\ SceneConstructed
    /\ ApplicationConstructed

NextApp ==
    \/ RunThread
    \/ MessageThread
    \/ WindowProc_WM_DESTROY
    \/ SpuriousWakeup
    \/ GpuExecute

\* Both threads and the GPU are scheduled fairly, and a thread that finds
\* m_windowMutex free again and again gets it (strong fairness); the user's
\* closing of the window and a spurious wake-up may or may not happen.
SpecApp ==
    /\ InitApp
    /\ [][NextApp]_vars
    /\ SF_vars(RunThread)
    /\ SF_vars(MessageThread)
    /\ WF_vars(GpuExecute)

\* ---------------------------------------------------------------- properties
\* C1: the offset-ordered block list always partitions [0, m_alignedSize):
\* the first block starts at 0, each block ends where the next one starts,
\* and the last block ends at m_alignedSize.
PartitionInvariant ==
    /\ Len(m_blocks) >= 1
    /\ m_blocks[1].offset = 0
    /\ \A i \in 1..(Len(m_blocks) - 1) :
          m_blocks[i].offset + m_blocks[i].size = m_blocks[i + 1].offset
    /\ m_blocks[Len(m_blocks)].offset + m_blocks[Len(m_blocks)].size = m_alignedSize

\* Allocate has split twice: two used blocks and the free remainder, none empty.
PartitionWitness ==
    /\ lastOp = "Allocate"
    /\ ret # INVALID_OFFSET
    /\ Len(m_blocks) = 3
    /\ \A i \in 1..3 : m_blocks[i].size > 0
    /\ ~m_blocks[1].isFree /\ ~m_blocks[2].isFree /\ m_blocks[3].isFree

\* C4: no two consecutive blocks of the block list are both free.
NoAdjacentFree ==
    \A i \in 1..(Len(m_blocks) - 1) : ~(m_blocks[i].isFree /\ m_blocks[i + 1].isFree)

\* A Free has merged its block with a free neighbour, in a list without empty
\* blocks that still holds a second free block behind a used one.
NoAdjacentFreeWitness ==
    /\ lastOp = "Free"
    /\ ret.path = "freed"
    /\ ret.merged = 1
    /\ Len(m_blocks) = 3
    /\ \A i \in 1..3 : m_blocks[i].size > 0
    /\ m_blocks[1].isFree /\ ~m_blocks[2].isFree /\ m_blocks[3].isFree

\* Sizes of the free blocks, and the largest of them (0 when there is none).
FreeSizes == {m_blocks[i].size : i \in {j \in 1..Len(m_blocks) : m_blocks[j].isFree}}
LargestFreeBlock == IF FreeSizes = {} THEN 0 ELSE Max(FreeSizes)

\* C2: an offset a successful Allocate returns is not the offset of an
\* allocation that is live when it returns.
UniqueLiveOffsets ==
    \A n \in Uint32 :
        LET r == AllocateOp(Heap, n)
        IN r.ret # INVALID_OFFSET => r.ret \notin DOMAIN m_allocations

\* C3: Allocate(n) succeeds exactly when some free block has a size >= n
\* rounded up to the alignment, and then allocates from a free block whose
\* size is the least of those sizes.
BestFitSelection ==
    \A n \in Uint32 :
        LET r == AllocateOp(Heap, n)
            fitting == {s \in FreeSizes : s >= AlignSize(n, m_alignment)}
        IN /\ (r.ret # INVALID_OFFSET) <=> (fitting # {})
           /\ r.ret # INVALID_OFFSET =>
                 \E i \in 1..Len(m_blocks) :
                     /\ m_blocks[i].isFree
                     /\ m_blocks[i].offset = r.ret
                     /\ m_blocks[i].size = Min(fitting)

\* C5: Free of a live block whose previous and next blocks are both free
\* replaces the three blocks by one free block that starts at the previous
\* block's offset and has the sum of the three sizes.
CoalesceBothNeighbours ==
    \A o \in DOMAIN m_allocations :
        LET it == m_allocations[o].blockIt
        IN (it > 1 /\ it < Len(m_blocks) /\ m_blocks[it - 1].isFree /\ m_blocks[it + 1].isFree) =>
             FreeOp(Heap, o).h.blocks =
                 SubSeq(m_blocks, 1, it - 2)
                 \o <<[offset |-> m_blocks[it - 1].offset,
                       size |-> m_blocks[it - 1].size + m_blocks[it].size + m_blocks[it + 1].size,
                       isFree |-> TRUE]>>
                 \o SubSeq(m_blocks, it + 2, Len(m_blocks))

\* Four elements of one alignment unit each: Allocate, Allocate, Free of the
\* first, then Free of the second has merged both neighbours into the one
\* free block that covers the whole range.
CoalesceBothNeighboursWitness ==
    /\ lastOp = "Free"
    /\ ret.path = "freed"
    /\ ret.merged = 2
    /\ m_numElements = 4
    /\ m_blocks = <<[offset |-> 0, size |-> m_alignedSize, isFree |-> TRUE]>>

\* C6: an Allocate that returns the failure value leaves the block list, the
\* size index, the allocation table and hence GetStats as they were.
FailedAllocateNoEffect ==
    \A n \in Uint32 :
        LET r == AllocateOp(Heap, n)
        IN r.ret = INVALID_OFFSET =>
             /\ r.h.blocks = m_blocks
             /\ r.h.freeMap = m_freeBlocksBySizeMap
             /\ r.h.allocs = m_allocations
             /\ GetStatsOp(r.h) = GetStatsOp(Heap)

\* An Allocate has failed while an allocation is live and a free block is left.
FailedAllocateWitness ==
    /\ lastOp = "Allocate"
    /\ ret = INVALID_OFFSET
    /\ DOMAIN m_allocations # {}
    /\ LargestFreeBlock > 0

\* C7: Allocate of any uint32_t size larger than the largest free block, or
\* larger than the aligned total size, fails and leaves GetStats unchanged.
ExhaustionEveryRequest ==
    \A n \in Uint32 :
        (n > LargestFreeBlock \/ n > m_alignedSize) =>
            LET r == AllocateOp(Heap, n)
            IN r.ret = INVALID_OFFSET /\ GetStatsOp(r.h) = GetStatsOp(Heap)

\* C8: a successful Allocate followed at once by Free of the returned offset
\* restores the block list and GetStats.
AllocateFreeRoundTrip ==
    \A n \in Uint32 :
        LET r == AllocateOp(Heap, n)
        IN r.ret # INVALID_OFFSET =>
             LET f == FreeOp(r.h, r.ret)
             IN f.h.blocks = m_blocks /\ GetStatsOp(f.h) = GetStatsOp(Heap)

\* C9: Free of an offset that has no live allocation changes nothing in the
\* allocator.
FreeUnknownNoEffect ==
    \A o \in Uint32 : o \notin DOMAIN m_allocations => FreeOp(Heap, o).h = Heap

\* A Free has taken the "no allocation found" path while an allocation is
\* live and a free block exists.
FreeUnknownWitness ==
    /\ lastOp = "Free"
    /\ ret.path = "unknown"
    /\ DOMAIN m_allocations # {}
    /\ LargestFreeBlock > 0

\* C10: Free of an offset that Free has released and Allocate has not returned
\* since takes the "no allocation found" path: it reaches OutputDebugStringA
\* whatever m_outputDebugStringLogs is, and it reaches assert(false).
DoubleFreeDetected ==
    \A o \in freedOffsets :
        LET r == FreeOp(Heap, o)
        IN r.path = "unknown" /\ r.log /\ r.assert

\* A second Free of a released offset has run with debug logging off.
DoubleFreeWitness ==
    /\ lastOp = "Free"
    /\ ret.doubleFree
    /\ ret.path = "unknown"
    /\ ~m_outputDebugStringLogs
    /\ logOutput
    /\ assertFailed

\* Positions of the used and of the free blocks of the block list.
UsedBlocks == {i \in 1..Len(m_blocks) : ~m_blocks[i].isFree}
FreeBlocks == {i \in 1..Len(m_blocks) : m_blocks[i].isFree}

\* C15: GetStats returns usedSize = the sum of the used blocks' sizes,
\* numFreeBlocks = the number of free blocks, largestFreeBlock = the largest
\* free size (0 if none) and numAllocations = the number of live allocations,
\* which is the number of used blocks.
GetStatsValues ==
    LET stats == GetStatsOp(Heap)
    IN /\ stats.usedSize = SumSizes(m_blocks, UsedBlocks)
       /\ stats.numFreeBlocks = Cardinality(FreeBlocks)
       /\ stats.largestFreeBlock = LargestFreeBlock
       /\ stats.numAllocations = Cardinality(DOMAIN m_allocations)
       /\ stats.numAllocations = Cardinality(UsedBlocks)

\* C16: whenever the free space is one single free block, as on a freshly
\* constructed allocator, GetStats reports a fragmentationRatio of 0.
SingleFreeBlockZeroFragmentation ==
    Cardinality(FreeBlocks) = 1 => GetStatsOp(Heap).fragmentationRatio[1] = 0

\* C17: the fragmentationRatio GetStats reports lies in [0, 1].
FragmentationRatioRange ==
    LET ratio == GetStatsOp(Heap).fragmentationRatio
    IN 0 <= ratio[1] /\ ratio[1] <= ratio[2]

\* C18: a destructor that runs while allocations are outstanding reaches
\* OutputDebugStringA, whatever m_outputDebugStringLogs is.
DestructorDiagnostic ==
    (lastOp = "~HeapAllocator" /\ ret > 0) => logOutput

\* C19: each neighbour merge of Free takes the neighbour out of the size index
\* in O(1): RemoveFromFreeMap examines one index entry, however many free
\* blocks have the neighbour's size.
CoalesceCostConstant ==
    \A o \in DOMAIN m_allocations :
        LET blockIt == m_allocations[o].blockIt
            h1 == [Heap EXCEPT !.blocks[blockIt].isFree = TRUE,
                               !.allocs = MapErase(m_allocations, o)]
        IN CoalesceVisits(h1, blockIt) <= 1

\* C20: a successful Allocate(n), with a = n rounded up to the alignment and
\* the chosen free block (o, s), returns o and leaves a used block (o, a) in
\* the chosen block's place; if s > a the free block (o + a, s - a) follows it
\* directly and is in the size index; if s = a no block is created.
SplitRule ==
    \A n \in Uint32 :
        LET r == AllocateOp(Heap, n)
            a == AlignSize(n, m_alignment)
        IN r.ret # INVALID_OFFSET =>
             LET i == r.h.allocs[r.ret].blockIt
                 o == m_blocks[i].offset
                 sz == m_blocks[i].size
                 used == [offset |-> o, size |-> a, isFree |-> FALSE]
                 rest == [offset |-> o + a, size |-> sz - a, isFree |-> TRUE]
             IN /\ m_blocks[i].isFree
                /\ r.ret = o
                /\ r.h.blocks[i] = used
                /\ sz > a =>
                      /\ r.h.blocks = SubSeq(m_blocks, 1, i - 1) \o <<used, rest>>
                                         \o SubSeq(m_blocks, i + 1, Len(m_blocks))
                      /\ \E k \in 1..Len(r.h.freeMap) :
                             r.h.freeMap[k] = [key |-> sz - a, it |-> i + 1]
                /\ sz = a => r.h.blocks = [m_blocks EXCEPT ![i] = used]

\* C14: calls of Allocate, Free and GetStats by several threads on one
\* HeapManager do not interleave: at most one thread is past the lock_guard,
\* it is the one that holds m_mutex, and every call returns the value and
\* leaves the containers that the allocator call run alone would.
SerializedCalls ==
    /\ Cardinality({t \in Threads : pc[t] # "idle"}) <= 1
    /\ \A t \in Threads : pc[t] # "idle" => m_mutex = t
    /\ \A t \in Threads :
          pc[t] = "done" =>
              /\ Heap = local[t].sequential.h
              /\ local[t].value = local[t].sequential.ret

\* Thread 2 is inside Free with its block marked free and not yet merged
\* with its two free neighbours, while thread 1 is in no call.
SerializedCallsWitness ==
    /\ pc[1] = "idle"
    /\ pc[2] = "mid"
    /\ local[2].op = "Free"
    /\ \E i \in 2..(Len(m_blocks) - 1) :
          /\ m_blocks[i - 1].isFree /\ m_blocks[i].isFree /\ m_blocks[i + 1].isFree
          /\ \A j \in {i - 1, i, i + 1} : m_blocks[j].size > 0

\* C11: in every reachable state HeapAllocator::Free((uint32_t)-1), and so
\* HeapManager::Free(0), leaves the containers as they are and takes the
\* early return: not the "no allocation found" path, no log, no assert.
SentinelFreeNoOp ==
    LET direct == FreeOp(Heap, INVALID_OFFSET)
        adapter == HeapManager_FreeOp(Heap, 0)
    IN /\ direct.h = Heap /\ direct.path = "sentinel" /\ ~direct.log /\ ~direct.assert
       /\ adapter.h = Heap /\ adapter.path = "sentinel" /\ ~adapter.log /\ ~adapter.assert

\* A HeapManager::Free has taken the early return while an allocation is live
\* at the internal offset 0.
SentinelFreeWitness ==
    \E t \in Threads :
        /\ pc[t] = "done"
        /\ local[t].op = "Free"
        /\ local[t].value = "sentinel"
        /\ 0 \in DOMAIN m_allocations
        /\ Heap = local[t].sequential.h

\* C12: HeapManager::Allocate returns 0 exactly when the allocator fails, and
\* no live allocation has the adapter-facing value 0.
AdapterNullConvention ==
    /\ \A n \in Uint32 :
          (HeapManager_AllocateOp(Heap, n).ret = 0) <=> (AllocateOp(Heap, n).ret = INVALID_OFFSET)
    /\ \A o \in DOMAIN m_allocations : HeapManager_AllocateRet(o) # 0
    /\ \A t \in Threads :
          (pc[t] = "done" /\ local[t].op = "Allocate" /\ local[t].value # 0) =>
              HeapManager_FreeArg(local[t].value) \in DOMAIN m_allocations

\* A HeapManager::Allocate has returned 0 while two allocations are live.
AdapterNullWitness ==
    \E t \in Threads :
        /\ pc[t] = "done"
        /\ local[t].op = "Allocate"
        /\ local[t].value = 0
        /\ Cardinality(DOMAIN m_allocations) >= 2

FreeIndexExact ==
    /\ \A i \in FreeBlocks :
          Cardinality({k \in 1..Len(m_freeBlocksBySizeMap) : m_freeBlocksBySizeMap[k].it = i}) = 1
    /\ \A k \in 1..Len(m_freeBlocksBySizeMap) :
          /\ m_freeBlocksBySizeMap[k].it \in FreeBlocks
          /\ m_freeBlocksBySizeMap[k].key = m_blocks[m_freeBlocksBySizeMap[k].it].size
    /\ \A k \in 1..(Len(m_freeBlocksBySizeMap) - 1) :
          m_freeBlocksBySizeMap[k].key <= m_freeBlocksBySizeMap[k + 1].key
    /\ \A i \in FreeBlocks :
          LET after == RemoveFromFreeMap(Heap, i).freeMap
          IN /\ Len(after) = Len(m_freeBlocksBySizeMap) - 1
             /\ \A j \in FreeBlocks \ {i} : \E k \in 1..Len(after) : after[k].it = j
             /\ \A k \in 1..Len(after) : after[k].it # i

\* Two free blocks of one size are in the index, behind a Free that merged nothing.
FreeIndexWitness ==
    /\ lastOp = "Free"
    /\ ret.path = "freed"
    /\ \E i, j \in FreeBlocks : i # j /\ m_blocks[i].size = m_blocks[j].size /\ m_blocks[i].size > 0

\* C22: an offset is a key of m_allocations exactly when the block that starts
\* at that offset is used, and the AllocationInfo has that block's offset and size.
AllocationTableExact ==
    /\ \A i \in 1..Len(m_blocks) :
          (~m_blocks[i].isFree) <=> (m_blocks[i].offset \in DOMAIN m_allocations)
    /\ \A i \in UsedBlocks :
          m_blocks[i].offset \in DOMAIN m_allocations =>
              /\ m_allocations[m_blocks[i].offset].offset = m_blocks[i].offset
              /\ m_allocations[m_blocks[i].offset].size = m_blocks[i].size

\* C23: for arguments whose rounded-up product is below 2^32, the constructor
\* leaves m_alignedSize = numElements * elementSize rounded up to the alignment,
\* one free block (0, m_alignedSize), one size-index entry and no allocation.
ConstructorInitialState ==
    (lastOp = "Init" /\ AlignSize(m_numElements * m_elementSize, m_alignment) < UINT32_MOD) =>
        /\ m_alignedSize = AlignSize(m_numElements * m_elementSize, m_alignment)
        /\ m_alignedSize % m_alignment = 0
        /\ m_alignedSize >= m_numElements * m_elementSize
        /\ m_alignedSize < m_numElements * m_elementSize + m_alignment
        /\ m_blocks = <<[offset |-> 0, size |-> m_alignedSize, isFree |-> TRUE]>>
        /\ m_freeBlocksBySizeMap = <<[key |-> m_alignedSize, it |-> 1]>>
        /\ DOMAIN m_allocations = {}

\* The constructor has run with an element size that is no multiple of the
\* alignment and more than one element.
ConstructorWitness ==
    /\ lastOp = "Init"
    /\ m_numElements > 1
    /\ m_elementSize % m_alignment # 0

\* C24: the ranges [offset, offset + size) of the live allocations, as
\* recorded in m_allocations and as used blocks, are pairwise disjoint and
\* lie inside [0, m_alignedSize).
LiveAllocationsDisjoint ==
    /\ \A o \in DOMAIN m_allocations :
          /\ m_allocations[o].offset + m_allocations[o].size <= m_alignedSize
          /\ \A q \in DOMAIN m_allocations :
                o # q =>
                   \/ m_allocations[o].offset + m_allocations[o].size <= m_allocations[q].offset
                   \/ m_allocations[q].offset + m_allocations[q].size <= m_allocations[o].offset
    /\ \A i \in UsedBlocks :
          /\ m_blocks[i].offset + m_blocks[i].size <= m_alignedSize
          /\ \A j \in UsedBlocks :
                i < j => m_blocks[i].offset + m_blocks[i].size <= m_blocks[j].offset

\* Allocate has returned an offset freed before, between two live allocations.
LiveAllocationsWitness ==
    /\ lastOp = "Allocate"
    /\ ret # INVALID_OFFSET
    /\ Cardinality(DOMAIN m_allocations) = 3
    /\ \A o \in DOMAIN m_allocations : m_allocations[o].size > 0
    /\ \E o \in DOMAIN m_allocations : o < ret
    /\ \E o \in DOMAIN m_allocations : o > ret

\* C25: whenever m_allocations is empty the block list is the one free block
\* (0, m_alignedSize) of the initial layout.
FullCoalescing ==
    DOMAIN m_allocations = {} =>
        m_blocks = <<[offset |-> 0, size |-> m_alignedSize, isFree |-> TRUE]>>

\* C26: every block's offset and size, and every offset returned by Allocate,
\* is a multiple of m_alignment (Allocate(0) leaves multiples behind as well,
\* so that the states of Spec are the states the claim is about).
AlignmentPreserved ==
    /\ \A i \in 1..Len(m_blocks) :
          m_blocks[i].offset % m_alignment = 0 /\ m_blocks[i].size % m_alignment = 0
    /\ (lastOp = "Allocate" /\ ret # INVALID_OFFSET) => ret % m_alignment = 0

\* C27: in an allocator of a size > 0, every block of the block list has a
\* size > 0 and no two blocks have the same offset.
NoZeroSizeBlocks ==
    m_alignedSize > 0 =>
        /\ \A i \in 1..Len(m_blocks) : m_blocks[i].size > 0
        /\ \A i, j \in 1..Len(m_blocks) : i # j => m_blocks[i].offset # m_blocks[j].offset

\* C28: every Free call of the Scene passes the null value 0 or an offset
\* that is live in its heap at the call, and ~Scene passes no offset other
\* than 0 that FreeTemporaryResources has passed for the same member.
SceneFreesOnce ==
    /\ \A k \in 1..Len(sceneFrees) : sceneFrees[k].offset = 0 \/ sceneFrees[k].live
    /\ \A j, k \in 1..Len(sceneFrees) :
          (/\ sceneFrees[j].caller = "FreeTemporaryResources"
           /\ sceneFrees[k].caller = "~Scene"
           /\ sceneFrees[j].member = sceneFrees[k].member)
          => sceneFrees[k].offset = 0

\* C29: when OnRender is about to reset the command allocator of the current
\* back buffer, the fence has completed the value signalled after the last
\* frame recorded with that allocator, and the GPU has no frame of that
\* allocator left to execute.
FrameReuseSafe ==
    runPc = "OnRender" =>
        /\ fenceCompleted >= signalled[m_currentBackBufferIndex]
        /\ \A k \in 1..Len(commandQueue) :
              commandQueue[k] # QueueExecute(m_currentBackBufferIndex)

\* OnRender reuses an allocator that has recorded a frame before, the GPU
\* still busy with a later frame of another allocator.
FrameReuseWitness ==
    /\ runPc = "OnRender"
    /\ signalled[m_currentBackBufferIndex] > 0
    /\ \E k \in 1..Len(commandQueue) : commandQueue[k].type = "Execute"

\* And it does so after a ResizeSwapChain that has reset the fence values.
FrameReuseResizeWitness ==
    /\ runPc = "OnRender"
    /\ signalled[m_currentBackBufferIndex] > 0
    /\ m_fenceValues[m_currentBackBufferIndex] > 0
    /\ \E i \in BackBuffers : m_fenceValues[i] = 0 /\ signalled[i] > 0

\* C30: Run always leaves its wait on m_windowCreatedCV, and when
\* CreateApplicationWindow has failed it never goes on to OnInit.
WindowHandshake ==
    /\ (runPc \in {"unique_lock", "wait", "wait(lock)", "blocked", "relock"})
          ~> (runPc \notin {"unique_lock", "wait", "wait(lock)", "blocked", "relock"})
    /\ [](~m_windowCreated =>
             runPc \in {"Run", "unique_lock", "wait", "wait(lock)", "blocked", "relock",
                        "windowCreated?", "return -1"})

====
